---- MODULE Spec2Model ----
(***************************************************************************)
(* Model of odfdr-installer (main.go): a linear orchestration of external  *)
(* commands (oc, jq) against one OpenShift cluster.  The state is the       *)
(* position of main(), the locals of addRHCEPHAuth, and the environment     *)
(* the commands act on: the executables on PATH, the cluster pull secret    *)
(* and the manifests applied to the cluster.                                *)
(***************************************************************************)
EXTENDS Integers, Sequences, FiniteSets, TLC

VARIABLES
    path,             \* executables resolvable by exec.LookPath
    clusterSecret,    \* live content of secret/pull-secret (.dockerconfigjson)
    applied,          \* manifests applied to the cluster
    run,              \* number of the current invocation of the tool
    extWrites,        \* writes to the secret by something other than the tool
    pc,               \* position in main()
    exitCode,         \* -1 while running, else the process exit status
    url,              \* -url flag
    clusterName,      \* main.clusterName
    kconfig,          \* whether the kubeconfig temp file exists
    loggedIn,         \* whether oc login succeeded in this run
    pullSecretOutput, \* addRHCEPHAuth.pullSecretOutput
    pullSecretFile,   \* content of <cluster>-pull-secret.json
    elementsCount,    \* addRHCEPHAuth.elementsCount
    appendDoc,        \* content of <cluster>-append-pull-secret.json
    mergedOutput,     \* addRHCEPHAuth.mergedOutput
    rhErr,            \* return value of addRHCEPHAuth ("running" before it returns)
    calls,            \* external commands attempted in this run, in order
    steps,            \* steps of main() started in this run, with their outcome
    lastWriter,       \* history: who wrote the secret last
    pushRun,          \* history: the run of the tool's last write
    lastPushed,       \* history: the document of the tool's last write
    extAfterPush,     \* history: an external write followed this run's push
    cmdFailed         \* history: a command or file write of addRHCEPHAuth failed

vars == <<path, clusterSecret, applied, run, extWrites, pc, exitCode, url,
          clusterName, kconfig, loggedIn, pullSecretOutput, pullSecretFile, elementsCount,
          appendDoc, mergedOutput, rhErr, calls, steps, lastWriter, pushRun,
          lastPushed, extAfterPush, cmdFailed>>

-----------------------------------------------------------------------------
(* Bounds *)
MaxRuns == 2
MaxExtWrites == 1
MaxUrlLen == 4

-----------------------------------------------------------------------------
(* JSON documents.  A document is invalid JSON, a non-object value, null,  *)
(* or an object; an object's "auths" member is absent, null, a non-object  *)
(* value, or a mapping from registry to credential.  A credential is JSON  *)
(* null or the object a registry login writes, "x".                         *)

TargetRegistry == "quay.io/rhceph-dev"
OtherRegistry == "registry.redhat.io"
Registries == {TargetRegistry, OtherRegistry}
Creds == {"null", "x"}

AuthMaps == UNION {[S -> Creds] : S \in SUBSET Registries}
EmptyAuths == [k \in {} |-> "null"]

MkDoc(kind, authsKind, auths) == [kind |-> kind, authsKind |-> authsKind, auths |-> auths]
NoDoc == MkDoc("unset", "absent", EmptyAuths)
Docs == {MkDoc(k, "absent", EmptyAuths) : k \in {"invalid", "nonobject", "null"}}
        \cup {MkDoc("object", ak, EmptyAuths) : ak \in {"absent", "null", "nonmap"}}
        \cup {MkDoc("object", "map", a) : a \in AuthMaps}

WellFormed(d) == d.kind = "object" /\ d.authsKind = "map"
Count(d) == Cardinality(DOMAIN d.auths)

-----------------------------------------------------------------------------
(* URLs are strings over a small alphabet. *)
Chars == {"a", "b", "."}
Urls == UNION {[1..n -> Chars] : n \in 0..MaxUrlLen}
MainUrls == {<<>>, <<"a">>, <<"a", ".", "b", ".", "a">>}

RECURSIVE Split(_)
Split(s) ==
    IF \A i \in 1..Len(s) : s[i] # "."
    THEN <<s>>
    ELSE LET i == CHOOSE i \in 1..Len(s) : s[i] = "." /\ \A j \in 1..(i-1) : s[j] # "."
         IN  <<SubSeq(s, 1, i-1)>> \o Split(SubSeq(s, i+1, Len(s)))

getClusterNameFirst(u) ==
    LET parts == Split(u)
    IN  IF Len(parts) < 2
        THEN [name |-> <<>>, err |-> "could not parse cluster name from URL"]
        ELSE [name |-> parts[1], err |-> "nil"]

getClusterName(u) ==
    LET parts == Split(u)
    IN  IF Len(parts) < 2
        THEN [name |-> <<>>, err |-> "could not parse cluster name from URL"]
        ELSE [name |-> parts[2], err |-> "nil"]

-----------------------------------------------------------------------------
(* Pure parts of the steps *)

RequiredCommands == <<"jq", "oc">>

checkCommandExists(p, command) == command \in p

checkRequiredCommandsOcOnly(p) == checkCommandExists(p, "oc")

checkRequiredCommands(p) ==
    \A i \in 1..Len(RequiredCommands) : checkCommandExists(p, RequiredCommands[i])

\* json.Unmarshal into map[string]any followed by the checks of lines 141-154
ParsePullSecretLenient(d) ==
    IF d.kind \in {"invalid", "nonobject"} THEN "error parsing pull secret JSON"
    ELSE IF TargetRegistry \in DOMAIN d.auths /\ d.auths[TargetRegistry] # "null" THEN "exists"
    ELSE "absent"

ParsePullSecretNoSkip(d) ==
    IF d.kind \in {"invalid", "nonobject"} THEN "error parsing pull secret JSON"
    ELSE IF ~(d.kind = "object" /\ d.authsKind = "map") THEN "invalid pull secret format"
    ELSE "absent"

ParsePullSecret(d) ==
    IF d.kind \in {"invalid", "nonobject"} THEN "error parsing pull secret JSON"
    ELSE IF ~(d.kind = "object" /\ d.authsKind = "map") THEN "invalid pull secret format"
    ELSE IF TargetRegistry \in DOMAIN d.auths /\ d.auths[TargetRegistry] # "null" THEN "exists"
    ELSE "absent"

\* jq -s '.[0] * .[1]': recursive merge of two objects, the right value
\* winning wherever the two values are not both objects
JqMergeLeft(p, r) ==
    IF p.kind # "object" \/ r.kind # "object" THEN [err |-> "error merging pull secrets", doc |-> NoDoc]
    ELSE IF r.authsKind = "absent" THEN [err |-> "nil", doc |-> p]
    ELSE IF p.authsKind = "map" /\ r.authsKind = "map"
         THEN [err |-> "nil", doc |-> p]
    ELSE [err |-> "nil", doc |-> r]

JqMerge(p, r) ==
    IF p.kind # "object" \/ r.kind # "object" THEN [err |-> "error merging pull secrets", doc |-> NoDoc]
    ELSE IF r.authsKind = "absent" THEN [err |-> "nil", doc |-> p]
    ELSE IF p.authsKind = "map" /\ r.authsKind = "map"
         THEN [err |-> "nil",
               doc |-> MkDoc("object", "map",
                             [k \in DOMAIN p.auths \cup DOMAIN r.auths |->
                                 IF k \in DOMAIN r.auths THEN r.auths[k] ELSE p.auths[k]])]
    ELSE [err |-> "nil", doc |-> r]

\* line 205
CountMismatchLess(newElementsCount, oldElementsCount) == newElementsCount < oldElementsCount + 1

CountMismatch(newElementsCount, oldElementsCount) == newElementsCount # oldElementsCount + 1

\* the document lines 192-207 inspect
VerifiedDocReread(merged, reread) == reread

VerifiedDoc(merged, reread) == merged

\* lines 192-209
VerifyMerged(merged, reread, oldCount) ==
    LET d == VerifiedDoc(merged, reread)
    IN  IF d.kind \in {"invalid", "nonobject"} THEN "error parsing new pull secret JSON"
        ELSE IF ~(d.kind = "object" /\ d.authsKind = "map") THEN "invalid new pull secret format"
        ELSE IF CountMismatch(Count(d), oldCount)
             THEN "pull secret does not contain the expected number of elements"
        ELSE "nil"

-----------------------------------------------------------------------------
(* Bookkeeping shared by the steps *)

env == <<path, clusterSecret, applied, extWrites>>
hist == <<lastWriter, pushRun, lastPushed, extAfterPush, cmdFailed>>
rhLocals == <<pullSecretOutput, pullSecretFile, elementsCount, appendDoc, mergedOutput>>
session == <<url, clusterName, kconfig, loggedIn>>

Step(name, status) == [name |-> name, status |-> status]
SetLast(s, status) == [s EXCEPT ![Len(s)].status = status]
Called(cmd) == \E i \in 1..Len(calls) : calls[i] = cmd
Outcome(ok) == IF ok THEN "ok" ELSE "failed"

\* a step of main() ends: on success main goes on to next, else os.Exit(1)
MainStep(name, ok, next) ==
    /\ steps' = Append(steps, Step(name, Outcome(ok)))
    /\ pc' = IF ok THEN next ELSE "exited"
    /\ exitCode' = IF ok THEN -1 ELSE 1

\* addRHCEPHAuth returns err to main (lines 262-265)
RhReturn(err) ==
    /\ rhErr' = err
    /\ steps' = SetLast(steps, Outcome(err = "nil"))
    /\ pc' = IF err = "nil" THEN "addICSP" ELSE "exited"
    /\ exitCode' = IF err = "nil" THEN -1 ELSE 1
    /\ lastWriter' = IF lastWriter = "pushPending"
                     THEN (IF err = "nil" THEN "pushOk" ELSE "pushFailed")
                     ELSE lastWriter

\* addRHCEPHAuth goes on to its next command
RhGoto(next) ==
    /\ pc' = next
    /\ UNCHANGED <<rhErr, steps, exitCode, lastWriter>>

\* an external command runs only if its executable is on PATH
Runs(cmd, ok) == ok /\ cmd \in path

-----------------------------------------------------------------------------
(* main(), lines 213-276 *)

ParseFlags ==
    /\ pc = "parseFlags"
    /\ \E u \in MainUrls, password \in BOOLEAN, rhcephPassword \in BOOLEAN :
          /\ url' = u
          /\ MainStep("parseFlags", u # <<>> /\ password /\ rhcephPassword,
                      "checkRequiredCommands")
    /\ UNCHANGED <<env, hist, rhLocals, rhErr, run, clusterName, kconfig, loggedIn, calls>>

CheckRequiredCommands ==
    /\ pc = "checkRequiredCommands"
    /\ MainStep("checkRequiredCommands", checkRequiredCommands(path), "getClusterName")
    /\ UNCHANGED <<env, hist, rhLocals, rhErr, run, session, calls>>

GetClusterName ==
    /\ pc = "getClusterName"
    /\ LET r == getClusterName(url)
       IN  /\ clusterName' = r.name
           /\ MainStep("getClusterName", r.err = "nil", "getKubeconfig")
    /\ UNCHANGED <<env, hist, rhLocals, rhErr, run, url, kconfig, loggedIn, calls>>

GetKubeconfig ==
    /\ pc = "getKubeconfig"
    /\ \E ok \in BOOLEAN :
          /\ kconfig' = ok
          /\ MainStep("getKubeconfig", ok, "login")
    /\ UNCHANGED <<env, hist, rhLocals, rhErr, run, url, clusterName, loggedIn, calls>>

Login ==
    /\ pc = "login"
    /\ calls' = Append(calls, "login")
    /\ \E ok \in BOOLEAN :
          /\ loggedIn' = Runs("oc", ok)
          /\ MainStep("login", Runs("oc", ok), "rhGet")
    /\ UNCHANGED <<env, hist, rhLocals, rhErr, run, url, clusterName, kconfig>>

-----------------------------------------------------------------------------
(* addRHCEPHAuth, lines 121-210, one action per external command *)

\* lines 122-154: fetch the secret, snapshot it to a file, parse and check it
RhGetPullSecret ==
    /\ pc = "rhGet"
    /\ calls' = Append(calls, "getSecret")
    /\ \E cmdOk \in BOOLEAN, writeOk \in BOOLEAN :
          IF ~Runs("oc", cmdOk)
          THEN /\ steps' = Append(steps, Step("addRHCEPHAuth", "failed"))
               /\ rhErr' = "error getting pull secret"
               /\ pc' = "exited" /\ exitCode' = 1
               /\ cmdFailed' = TRUE
               /\ UNCHANGED <<pullSecretOutput, pullSecretFile, elementsCount, lastWriter>>
          ELSE /\ pullSecretOutput' = clusterSecret
               /\ pullSecretFile' = IF writeOk THEN clusterSecret ELSE pullSecretFile
               /\ cmdFailed' = ~writeOk
               /\ LET res == IF ~writeOk THEN "error writing pull secret to file"
                             ELSE ParsePullSecret(clusterSecret)
                  IN  /\ elementsCount' = IF res \in {"exists", "absent"}
                                          THEN Count(clusterSecret) ELSE elementsCount
                      /\ IF res = "absent"
                         THEN /\ steps' = Append(steps, Step("addRHCEPHAuth", "running"))
                              /\ pc' = "rhLogin"
                              /\ UNCHANGED <<rhErr, exitCode>>
                         ELSE LET err == IF res = "exists" THEN "nil" ELSE res
                              IN  /\ steps' = Append(steps, Step("addRHCEPHAuth", Outcome(err = "nil")))
                                  /\ rhErr' = err
                                  /\ pc' = IF err = "nil" THEN "addICSP" ELSE "exited"
                                  /\ exitCode' = IF err = "nil" THEN -1 ELSE 1
               /\ UNCHANGED lastWriter
    /\ UNCHANGED <<env, run, session, appendDoc, mergedOutput, pushRun, lastPushed, extAfterPush>>

\* lines 156-163: oc registry login writes the append file
RhRegistryLogin ==
    /\ pc = "rhLogin"
    /\ calls' = Append(calls, "registryLogin")
    /\ \E ok \in BOOLEAN, r \in Docs :
          IF Runs("oc", ok)
          THEN appendDoc' = r /\ RhGoto("rhMerge") /\ UNCHANGED cmdFailed
          ELSE UNCHANGED appendDoc /\ RhReturn("error logging into registry") /\ cmdFailed' = TRUE
    /\ UNCHANGED <<env, run, session, pullSecretOutput, pullSecretFile, elementsCount, mergedOutput,
                   pushRun, lastPushed, extAfterPush>>

\* lines 165-175: jq merges the snapshot and the append file
RhMerge ==
    /\ pc = "rhMerge"
    /\ calls' = Append(calls, "jq")
    /\ \E ok \in BOOLEAN, writeOk \in BOOLEAN :
          LET m == JqMerge(pullSecretFile, appendDoc)
          IN  IF ~Runs("jq", ok) \/ m.err # "nil"
              THEN /\ UNCHANGED mergedOutput
                   /\ RhReturn("error merging pull secrets")
                   /\ cmdFailed' = ~Runs("jq", ok)
              ELSE /\ mergedOutput' = m.doc
                   /\ cmdFailed' = ~writeOk
                   /\ IF writeOk THEN RhGoto("rhUpdate")
                      ELSE RhReturn("error writing merged pull secret to file")
    /\ UNCHANGED <<env, run, session, pullSecretOutput, pullSecretFile, elementsCount, appendDoc,
                   pushRun, lastPushed, extAfterPush>>

\* lines 177-183: oc set data replaces the cluster secret by the merged file
RhUpdate ==
    /\ pc = "rhUpdate"
    /\ calls' = Append(calls, "setData")
    /\ \E ok \in BOOLEAN :
          IF Runs("oc", ok)
          THEN /\ clusterSecret' = mergedOutput
               /\ pc' = "rhVerify"
               /\ lastWriter' = "pushPending"
               /\ pushRun' = run
               /\ lastPushed' = mergedOutput
               /\ UNCHANGED <<rhErr, steps, exitCode, cmdFailed>>
          ELSE /\ RhReturn("error updating pull secret")
               /\ cmdFailed' = TRUE
               /\ UNCHANGED <<clusterSecret, pushRun, lastPushed>>
    /\ UNCHANGED <<path, applied, extWrites, run, session, rhLocals>>
    /\ extAfterPush' = FALSE

\* lines 185-209: re-read the live secret, then count the merged document
RhVerify ==
    /\ pc = "rhVerify"
    /\ calls' = Append(calls, "getSecret")
    /\ \E ok \in BOOLEAN :
          IF Runs("oc", ok)
          THEN /\ pullSecretOutput' = clusterSecret
               /\ RhReturn(VerifyMerged(mergedOutput, clusterSecret, elementsCount))
               /\ UNCHANGED cmdFailed
          ELSE /\ UNCHANGED pullSecretOutput
               /\ RhReturn("error getting pull secret")
               /\ cmdFailed' = TRUE
    /\ UNCHANGED <<env, run, session, pullSecretFile, elementsCount, appendDoc, mergedOutput,
                   pushRun, lastPushed, extAfterPush>>

-----------------------------------------------------------------------------
(* addICSP (104-119) and addCatalogSource (87-102) *)

AddICSPContinue ==
    /\ pc = "addICSP"
    /\ calls' = Append(calls, "applyICSP")
    /\ \E writeOk \in BOOLEAN, ok \in BOOLEAN :
          LET done == writeOk /\ Runs("oc", ok)
          IN  /\ applied' = IF done THEN applied \cup {"icsp"} ELSE applied
              /\ steps' = Append(steps, Step("addICSP", Outcome(done)))
              /\ pc' = "addCatalogSource"
              /\ exitCode' = -1
    /\ UNCHANGED <<path, clusterSecret, extWrites, hist, rhLocals, rhErr, run, session>>

AddICSP ==
    /\ pc = "addICSP"
    /\ \E writeOk \in BOOLEAN, ok \in BOOLEAN :
          LET done == writeOk /\ Runs("oc", ok)
          IN  /\ calls' = IF writeOk THEN Append(calls, "applyICSP") ELSE calls
              /\ applied' = IF done THEN applied \cup {"icsp"} ELSE applied
              /\ MainStep("addICSP", done, "addCatalogSource")
    /\ UNCHANGED <<path, clusterSecret, extWrites, hist, rhLocals, rhErr, run, session>>

AddCatalogSource ==
    /\ pc = "addCatalogSource"
    /\ \E writeOk \in BOOLEAN, ok \in BOOLEAN :
          LET done == writeOk /\ Runs("oc", ok)
          IN  /\ calls' = IF writeOk THEN Append(calls, "applyCatalogSource") ELSE calls
              /\ applied' = IF done THEN applied \cup {"catalogsource"} ELSE applied
              /\ steps' = Append(steps, Step("addCatalogSource", Outcome(done)))
              /\ pc' = "exited"
              /\ exitCode' = IF done THEN 0 ELSE 1
    /\ UNCHANGED <<path, clusterSecret, extWrites, hist, rhLocals, rhErr, run, session>>

-----------------------------------------------------------------------------
(* The environment: the operator runs the tool again; something else       *)
(* writes the cluster secret while addRHCEPHAuth works on it (a write at    *)
(* any other time reaches the tool as one just before its next fetch).      *)

Rerun ==
    /\ pc = "exited"
    /\ run < MaxRuns
    /\ run' = run + 1
    /\ pc' = "parseFlags"
    /\ exitCode' = -1
    /\ url' = <<>> /\ clusterName' = <<>> /\ kconfig' = FALSE /\ loggedIn' = FALSE
    /\ pullSecretOutput' = NoDoc /\ pullSecretFile' = NoDoc /\ elementsCount' = 0
    /\ appendDoc' = NoDoc /\ mergedOutput' = NoDoc
    /\ rhErr' = "running"
    /\ calls' = <<>> /\ steps' = <<>>
    /\ extAfterPush' = FALSE /\ cmdFailed' = FALSE
    /\ UNCHANGED <<env, lastWriter, pushRun, lastPushed>>

ExternalWrite ==
    /\ pc \in {"rhGet", "rhLogin", "rhMerge", "rhUpdate", "rhVerify"}
    /\ extWrites < MaxExtWrites
    /\ extWrites' = extWrites + 1
    /\ \E d \in Docs : d # clusterSecret /\ clusterSecret' = d
    /\ lastWriter' = "ext"
    /\ extAfterPush' = (extAfterPush \/ pc = "rhVerify")
    /\ UNCHANGED <<path, applied, run, pc, exitCode, session, rhLocals, rhErr,
                   calls, steps, pushRun, lastPushed, cmdFailed>>

-----------------------------------------------------------------------------
Init ==
    /\ path \in SUBSET {"jq", "oc"}
    /\ clusterSecret \in Docs
    /\ applied = {}
    /\ run = 1
    /\ extWrites = 0
    /\ pc = "parseFlags"
    /\ exitCode = -1
    /\ url = <<>> /\ clusterName = <<>> /\ kconfig = FALSE /\ loggedIn = FALSE
    /\ pullSecretOutput = NoDoc /\ pullSecretFile = NoDoc /\ elementsCount = 0
    /\ appendDoc = NoDoc /\ mergedOutput = NoDoc
    /\ rhErr = "running"
    /\ calls = <<>> /\ steps = <<>>
    /\ lastWriter = "none" /\ pushRun = 0 /\ lastPushed = NoDoc
    /\ extAfterPush = FALSE /\ cmdFailed = FALSE

Next ==
    \/ ParseFlags
    \/ CheckRequiredCommands
    \/ GetClusterName
    \/ GetKubeconfig
    \/ Login
    \/ RhGetPullSecret
    \/ RhRegistryLogin
    \/ RhMerge
    \/ RhUpdate
    \/ RhVerify
    \/ AddICSP
    \/ AddCatalogSource
    \/ Rerun
    \/ ExternalWrite

Spec == Init /\ [][Next]_vars

(* getClusterName alone, applied to every URL up to MaxUrlLen *)
InitURL ==
    /\ path = {"jq", "oc"}
    /\ clusterSecret = MkDoc("object", "map", EmptyAuths)
    /\ applied = {}
    /\ run = 1
    /\ extWrites = 0
    /\ pc = "getClusterName"
    /\ exitCode = -1
    /\ url \in Urls
    /\ clusterName = <<>> /\ kconfig = FALSE /\ loggedIn = FALSE
    /\ pullSecretOutput = NoDoc /\ pullSecretFile = NoDoc /\ elementsCount = 0
    /\ appendDoc = NoDoc /\ mergedOutput = NoDoc
    /\ rhErr = "running"
    /\ calls = <<>>
    /\ steps = <<Step("parseFlags", "ok"), Step("checkRequiredCommands", "ok")>>
    /\ lastWriter = "none" /\ pushRun = 0 /\ lastPushed = NoDoc
    /\ extAfterPush = FALSE /\ cmdFailed = FALSE

NextURL == GetClusterName

SpecURL == InitURL /\ [][NextURL]_vars

-----------------------------------------------------------------------------
(* Vocabulary of the properties *)

ErrCountMismatch == "pull secret does not contain the expected number of elements"
PushedThisRun == pushRun = run
NoMergeCalls == ~Called("registryLogin") /\ ~Called("jq") /\ ~Called("setData")
RhReturned == rhErr # "running"
SnapshotTaken == pullSecretFile # NoDoc
HasCredential(d) == WellFormed(d) /\ TargetRegistry \in DOMAIN d.auths /\ d.auths[TargetRegistry] # "null"
NewKeys(p, r) == DOMAIN r.auths \ DOMAIN p.auths

-----------------------------------------------------------------------------
\* C1: when the snapshot P of the pull secret is well formed and the registry
\* login document R has exactly one entry, under a key P does not have, the
\* document pushed to the cluster has exactly the entries of P and of R,
\* |auths(P)| + 1 of them, and addRHCEPHAuth returns nil unless one of its
\* external commands or file writes fails.
C1Premise ==
    /\ WellFormed(pullSecretFile) /\ WellFormed(appendDoc)
    /\ Count(appendDoc) = 1
    /\ DOMAIN appendDoc.auths \cap DOMAIN pullSecretFile.auths = {}

C1MergeAddsOne ==
    C1Premise =>
        /\ PushedThisRun =>
              /\ WellFormed(lastPushed)
              /\ DOMAIN lastPushed.auths = DOMAIN pullSecretFile.auths \cup DOMAIN appendDoc.auths
              /\ \A k \in DOMAIN pullSecretFile.auths : lastPushed.auths[k] = pullSecretFile.auths[k]
              /\ \A k \in DOMAIN appendDoc.auths : lastPushed.auths[k] = appendDoc.auths[k]
              /\ Count(lastPushed) = Count(pullSecretFile) + 1
        /\ (RhReturned /\ ~cmdFailed) => (rhErr = "nil" /\ PushedThisRun)

C1Witness ==
    /\ C1Premise /\ rhErr = "nil" /\ PushedThisRun
    /\ Count(pullSecretFile) = 1 /\ Count(lastPushed) = 2

\* C2: the cluster secret is written only with a merged document that passes
\* the count verification, and a run whose verification fails has not
\* written the cluster secret.
C2NoPartialWrite ==
    /\ PushedThisRun => VerifyMerged(lastPushed, lastPushed, elementsCount) = "nil"
    /\ rhErr = ErrCountMismatch => ~PushedThisRun

\* C3: when the auths mapping of the snapshot already has the key
\* quay.io/rhceph-dev, addRHCEPHAuth returns nil without registry login,
\* merge or write of the cluster secret.
C3NoopWhenKeyPresent ==
    (WellFormed(pullSecretFile) /\ TargetRegistry \in DOMAIN pullSecretFile.auths) =>
        /\ rhErr = "nil"
        /\ NoMergeCalls
        /\ ~PushedThisRun

\* C4 as stated: P lacks the target key and R has zero or more than one
\* entry; then addRHCEPHAuth, its commands all working, ends with the
\* count-mismatch error.
C4Original ==
    (/\ RhReturned /\ ~cmdFailed
     /\ WellFormed(pullSecretFile) /\ TargetRegistry \notin DOMAIN pullSecretFile.auths
     /\ WellFormed(appendDoc) /\ Count(appendDoc) # 1)
    => rhErr = ErrCountMismatch

\* C4 amended: P lacks the target key and R has zero or more than one entry
\* under keys that P does not have; then addRHCEPHAuth, its commands all
\* working, ends with the count-mismatch error.
C4CountMismatch ==
    (/\ RhReturned /\ ~cmdFailed
     /\ WellFormed(pullSecretFile) /\ TargetRegistry \notin DOMAIN pullSecretFile.auths
     /\ WellFormed(appendDoc) /\ Cardinality(NewKeys(pullSecretFile, appendDoc)) # 1)
    => rhErr = ErrCountMismatch

C4Witness ==
    /\ rhErr = ErrCountMismatch /\ ~cmdFailed
    /\ WellFormed(pullSecretFile) /\ TargetRegistry \notin DOMAIN pullSecretFile.auths
    /\ WellFormed(appendDoc) /\ Cardinality(NewKeys(pullSecretFile, appendDoc)) = 2

\* C5: when the fetched pull secret is not a mapping, or its auths member is
\* missing or not a mapping, addRHCEPHAuth returns an error and the run has
\* no registry login, no merge and no write of the cluster secret.
C5MalformedRejected ==
    (SnapshotTaken /\ ~WellFormed(pullSecretFile)) =>
        /\ rhErr \notin {"running", "nil"}
        /\ pc = "exited" /\ exitCode = 1
        /\ NoMergeCalls
        /\ ~PushedThisRun

C5Witness ==
    /\ SnapshotTaken /\ pullSecretFile.kind = "object" /\ pullSecretFile.authsKind = "absent"
    /\ rhErr = "invalid pull secret format"

\* C6: the steps of main run in the fixed order, each only after all earlier
\* ones succeeded; the first failure exits with status 1 and nothing runs
\* after it; nothing applied is taken back and no step runs twice; status 0
\* means every step succeeded.
StepOrder == <<"parseFlags", "checkRequiredCommands", "getClusterName", "getKubeconfig",
               "login", "addRHCEPHAuth", "addICSP", "addCatalogSource">>

C6Order ==
    /\ Len(steps) <= Len(StepOrder)
    /\ \A i \in 1..Len(steps) : steps[i].name = StepOrder[i]
    /\ \A i \in 1..(Len(steps) - 1) : steps[i].status = "ok"
    /\ (\E i \in 1..Len(steps) : steps[i].status = "failed") <=> exitCode = 1
    /\ exitCode = 1 => pc = "exited"
    /\ exitCode = 0 => /\ pc = "exited"
                       /\ Len(steps) = Len(StepOrder)
                       /\ \A i \in 1..Len(steps) : steps[i].status = "ok"
    /\ pc = "exited" => exitCode \in {0, 1}
    /\ Called("applyICSP") => (loggedIn /\ rhErr = "nil")
    /\ Called("applyCatalogSource") => "icsp" \in applied
    /\ Called("registryLogin") => loggedIn

C6NoUndo ==
    /\ applied \subseteq applied'
    /\ run' = run =>
          /\ Len(steps) <= Len(steps')
          /\ \A i \in 1..(Len(steps) - 1) : steps'[i] = steps[i]
          /\ Len(steps) > 0 => steps'[Len(steps)].name = steps[Len(steps)].name
          /\ pc = "exited" => (steps' = steps /\ calls' = calls /\ applied' = applied)

C6FailFast == []C6Order /\ [][C6NoUndo]_vars

C6Witness ==
    /\ exitCode = 1 /\ Len(steps) = 7 /\ steps[7] = Step("addICSP", "failed")
    /\ PushedThisRun /\ clusterSecret = lastPushed

\* C7 as stated: once a run's addRHCEPHAuth has returned nil after pushing a
\* merged document, and nothing else has written the secret since, a later
\* run does no registry login and no write of the secret.
C7Original ==
    (lastWriter = "pushOk" /\ run > pushRun) => (~Called("registryLogin") /\ ~Called("setData"))

\* C7 amended: the same, for a pushed document that holds a non-null entry
\* for quay.io/rhceph-dev.
C7RerunIsNoop ==
    (lastWriter = "pushOk" /\ run > pushRun /\ HasCredential(lastPushed)) =>
        /\ NoMergeCalls
        /\ clusterSecret = lastPushed
        /\ (RhReturned /\ ~cmdFailed) => rhErr = "nil"

C7Witness ==
    /\ lastWriter = "pushOk" /\ run > pushRun /\ HasCredential(lastPushed)
    /\ rhErr = "nil" /\ pullSecretFile = lastPushed

\* C8: when jq or oc is missing from PATH, the run exits with status 1
\* before login, before any read or write of the pull secret and before any
\* manifest is applied.
C8FailFastOnMissingCommand ==
    ~({"jq", "oc"} \subseteq path) =>
        /\ calls = <<>>
        /\ ~loggedIn /\ ~kconfig
        /\ applied = {}
        /\ pushRun = 0 /\ ~SnapshotTaken
        /\ pc \in {"parseFlags", "checkRequiredCommands", "exited"}
        /\ pc = "exited" => exitCode = 1

C8Witness ==
    /\ path = {"oc"} /\ pc = "exited" /\ exitCode = 1
    /\ Len(steps) = 2 /\ steps[2] = Step("checkRequiredCommands", "failed")

\* C9: getClusterName returns the text between the first and the second dot
\* (or the end) of a URL that has a dot, and a parse error with no name for a
\* URL without one.
Dots(u) == {i \in 1..Len(u) : u[i] = "."}
Least(S) == CHOOSE i \in S : \A j \in S : i <= j
SecondSegment(u) ==
    LET d1 == Least(Dots(u))
        later == {i \in Dots(u) : i > d1}
        d2 == IF later = {} THEN Len(u) + 1 ELSE Least(later)
    IN  [i \in 1..(d2 - d1 - 1) |-> u[d1 + i]]

C9ClusterName ==
    pc # "getClusterName" =>
        IF Dots(url) # {}
        THEN pc = "getKubeconfig" /\ exitCode = -1 /\ clusterName = SecondSegment(url)
        ELSE pc = "exited" /\ exitCode = 1 /\ clusterName = <<>>

C9Witness ==
    /\ pc = "getKubeconfig" /\ url = <<"a", ".", "b", ".">> /\ clusterName = <<"b">>

\* C10: once the merged document is pushed and the re-read command works,
\* addRHCEPHAuth returns nil exactly when the merged document has one entry
\* more than the snapshot had, whatever the live secret holds by then.
C10RereadIgnored ==
    (PushedThisRun /\ RhReturned /\ ~cmdFailed) =>
        /\ rhErr = "nil" <=> (WellFormed(mergedOutput) /\ Count(mergedOutput) = elementsCount + 1)
        /\ rhErr # "nil" => rhErr \in {"invalid new pull secret format", ErrCountMismatch}

C10Witness ==
    /\ PushedThisRun /\ rhErr = "nil" /\ extAfterPush
    /\ pullSecretOutput # mergedOutput /\ ~HasCredential(pullSecretOutput)
====
